---- MODULE Spec2Model ----
(***************************************************************************)
(* Club dashboard (src/test.py): a SQLite store with three tables, six     *)
(* data-access functions, five page handlers dispatched by main().         *)
(*                                                                         *)
(* Text is a tuple of one-character strings, so that str.strip() is        *)
(* computed.  A calendar date is a day number; date.isoformat() is its     *)
(* zero-padded digit tuple and datetime.isoformat() appends the time of    *)
(* day, so that ORDER BY on the stored text is a lexicographic comparison. *)
(***************************************************************************)
EXTENDS Integers, Sequences, FiniteSets, TLC

VARIABLES store, clock, view

vars == <<store, clock, view>>

----------------------------------------------------------------------------
(* Bounds of the model *)

MaxRows == 2       \* rows in the three tables together
MaxClock == 1      \* last reading of the wall clock
TicksPerDay == 1   \* clock readings per calendar day

----------------------------------------------------------------------------
(* Values *)

TableNames == {"announcements", "events", "members"}

Text == {<<>>, <<" ">>, <<"a">>, <<" ", "a", " ">>}

Notes == {<<" ", "a">>}

Roles == {<<>>, <<"a", " ">>}

Dates == 0..((MaxClock \div TicksPerDay) + 1)

TimesOfDay == {<<9, 5>>}

----------------------------------------------------------------------------
(* Conversions *)

RECURSIVE LStrip(_)
LStrip(s) == IF s # <<>> /\ Head(s) = " " THEN LStrip(Tail(s)) ELSE s

RECURSIVE RStrip(_)
RStrip(s) ==
    IF s # <<>> /\ s[Len(s)] = " " THEN RStrip(SubSeq(s, 1, Len(s) - 1)) ELSE s

Strip(s) == RStrip(LStrip(s))

TwoDigits(n) == <<n \div 10, n % 10>>

DateIsoformat(d) == TwoDigits(d)

DateOf(t) == t \div TicksPerDay

DatetimeIsoformat(t) == DateIsoformat(DateOf(t)) \o <<t % TicksPerDay>>

Strftime(t) == TwoDigits(t[1]) \o <<":">> \o TwoDigits(t[2])

ToDatetime(iso) == iso[1] * 10 + iso[2]

RECURSIVE TextLess(_, _)
TextLess(a, b) ==
    IF a = <<>> THEN b # <<>>
    ELSE IF b = <<>> THEN FALSE
    ELSE IF a[1] # b[1] THEN a[1] < b[1]
    ELSE TextLess(Tail(a), Tail(b))

----------------------------------------------------------------------------
(* Storage layer *)

Exists(s, t) == t \in DOMAIN s.tables

Rows(s, t) == IF Exists(s, t) THEN s.tables[t] ELSE <<>>

TotalRows(s) ==
    Len(Rows(s, "announcements")) + Len(Rows(s, "events")) + Len(Rows(s, "members"))

\* Mutant of init_db: the tables are dropped and created again.
init_db_recreate(s) ==
    [file |-> TRUE, tables |-> [t \in TableNames |-> <<>>]]

init_db(s) ==
    [file |-> TRUE,
     tables |-> [t \in TableNames |-> IF Exists(s, t) THEN s.tables[t] ELSE <<>>]]

NextId(rows) == IF rows = <<>> THEN 1 ELSE rows[Len(rows)].id + 1

\* Mutant of Insert: the new row replaces the rows of the table.
InsertReplace(s, t, row) ==
    [s EXCEPT !.tables[t] = <<row>>]

Insert(s, t, row) ==
    [s EXCEPT !.tables[t] = Append(@, row)]

\* Mutant of Before: the DESC keyword is lost.
BeforeAscending(x, e, col, desc) == TextLess(x[col], e[col])

Before(x, e, col, desc) ==
    IF desc THEN TextLess(e[col], x[col]) ELSE TextLess(x[col], e[col])

\* The engine sorts the rowid-ordered scan of the table and keeps rows of
\* equal key in scan order.
RECURSIVE OrderBy(_, _, _)
OrderBy(rows, col, desc) ==
    IF rows = <<>> THEN <<>>
    ELSE LET x == rows[Len(rows)]
             sorted == OrderBy(SubSeq(rows, 1, Len(rows) - 1), col, desc)
         IN SelectSeq(sorted, LAMBDA e : ~Before(x, e, col, desc))
              \o <<x>>
              \o SelectSeq(sorted, LAMBDA e : Before(x, e, col, desc))

----------------------------------------------------------------------------
(* Data-access layer *)

fetch_announcements(s) == OrderBy(s.tables["announcements"], "date_created", TRUE)

\* Mutant of add_announcement: the timestamp was taken when the module loaded.
add_announcement_stale(s, title, content, now) ==
    Insert(s, "announcements",
           [id |-> NextId(s.tables["announcements"]), title |-> title,
            content |-> content, date_created |-> DatetimeIsoformat(0)])

add_announcement(s, title, content, now) ==
    Insert(s, "announcements",
           [id |-> NextId(s.tables["announcements"]), title |-> title,
            content |-> content, date_created |-> DatetimeIsoformat(now)])

fetch_events(s) ==
    LET df == OrderBy(s.tables["events"], "date", FALSE)
    IN [i \in 1..Len(df) |-> [df[i] EXCEPT !.date = ToDatetime(@)]]

add_event(s, name, description, date, time, location, now) ==
    Insert(s, "events",
           [id |-> NextId(s.tables["events"]), name |-> name,
            description |-> description, date |-> DateIsoformat(date),
            time |-> time, location |-> location,
            created_at |-> DatetimeIsoformat(now)])

fetch_members(s) ==
    LET df == OrderBy(s.tables["members"], "joined_date", TRUE)
    IN [i \in 1..Len(df) |-> [df[i] EXCEPT !.joined_date = ToDatetime(@)]]

\* Mutant of add_member: name and role are bound in the wrong order.
add_member_swapped(s, name, role, joined_date) ==
    Insert(s, "members",
           [id |-> NextId(s.tables["members"]), name |-> role, role |-> name,
            joined_date |-> DateIsoformat(joined_date)])

add_member(s, name, role, joined_date) ==
    Insert(s, "members",
           [id |-> NextId(s.tables["members"]), name |-> name, role |-> role,
            joined_date |-> DateIsoformat(joined_date)])

----------------------------------------------------------------------------
(* Presentation layer: what one run of the script leaves on the screen *)

NoCharts == [announcements |-> "none", events |-> "none", members |-> "none"]

NoRoles == [r \in {} |-> 0]

Blank ==
    [page |-> "none", status |-> "ok", message |-> "none", ann |-> <<>>,
     ev |-> <<>>, upcoming |-> <<>>, past |-> <<>>, mem |-> <<>>, today |-> 0,
     charts |-> NoCharts, roles |-> NoRoles]

\* Mutant of Upcoming: today's events are left out.
UpcomingStrict(df, today) == SelectSeq(df, LAMBDA r : r.date > today)

Upcoming(df, today) == SelectSeq(df, LAMBDA r : r.date >= today)

Past(df, today) == SelectSeq(df, LAMBDA r : r.date < today)

RoleCount(df, r) == Cardinality({i \in 1..Len(df) : df[i].role = r})

value_counts(df) ==
    [r \in {df[i].role : i \in 1..Len(df)} |-> RoleCount(df, r)]

\* Mutant of IsBlank: the field is tested without strip().
IsBlankNoStrip(text) == text = <<>>

IsBlank(text) == Strip(text) = <<>>

Pipeline(df) == IF df = <<>> THEN "placeholder" ELSE "chart"

AnnouncementsView(s, message) ==
    IF Exists(s, "announcements")
    THEN [Blank EXCEPT !.page = "Announcements", !.message = message,
                       !.ann = fetch_announcements(s)]
    ELSE [Blank EXCEPT !.page = "Announcements", !.status = "error"]

EventsView(s, message, now) ==
    IF Exists(s, "events")
    THEN LET df == fetch_events(s)
             today == DateOf(now)
         IN [Blank EXCEPT !.page = "Events", !.message = message, !.ev = df,
                          !.today = IF df = <<>> THEN 0 ELSE today,
                          !.upcoming = IF df = <<>> THEN <<>> ELSE Upcoming(df, today),
                          !.past = IF df = <<>> THEN <<>> ELSE Past(df, today)]
    ELSE [Blank EXCEPT !.page = "Events", !.status = "error"]

MembersView(s, message) ==
    IF Exists(s, "members")
    THEN [Blank EXCEPT !.page = "Members", !.message = message,
                       !.mem = fetch_members(s)]
    ELSE [Blank EXCEPT !.page = "Members", !.status = "error"]

AnalyticsView(s) ==
    LET annOk == Exists(s, "announcements")
        evOk == annOk /\ Exists(s, "events")
        memOk == evOk /\ Exists(s, "members")
        mem == fetch_members(s)
    IN [Blank EXCEPT
          !.page = "Analytics",
          !.status = IF memOk THEN "ok" ELSE "error",
          !.charts = [announcements |->
                          IF annOk THEN Pipeline(fetch_announcements(s)) ELSE "none",
                      events |->
                          IF evOk THEN Pipeline(fetch_events(s)) ELSE "none",
                      members |->
                          IF memOk THEN Pipeline(mem) ELSE "none"],
          !.roles = IF memOk /\ mem # <<>> THEN value_counts(mem) ELSE NoRoles]

Now == {t \in {clock, clock + 1} : t <= MaxClock}

\* Mutant of Startup: the tables are created afresh on every run.
StartupReset(s) == [file |-> TRUE, tables |-> [t \in TableNames |-> <<>>]]

Startup(s) == IF ~s.file THEN init_db(s) ELSE s

----------------------------------------------------------------------------
(* Initial states: the store file is absent, or present with any of the    *)
(* three tables.                                                           *)

Init ==
    /\ store \in {[file |-> FALSE, tables |-> [t \in {} |-> <<>>]]}
             \cup {[file |-> TRUE, tables |-> [t \in T |-> <<>>]] : T \in SUBSET TableNames}
    /\ clock = 0
    /\ view = Blank

----------------------------------------------------------------------------
(* One run of main() per action.  A page_* action is a navigation to the   *)
(* page; a Submit* action is the run that a form's submit button starts,   *)
(* which the form can start only while its page is on the screen, and      *)
(* which ends with the rerun that draws the page again.                    *)

page_home ==
    \E now \in Now :
        /\ store' = Startup(store)
        /\ clock' = now
        /\ view' = [Blank EXCEPT !.page = "Home"]

page_announcements ==
    /\ store' = Startup(store)
    /\ view' = AnnouncementsView(store', "none")
    /\ UNCHANGED clock

SubmitAnnouncement(title, content, now) ==
    /\ view.page = "Announcements" /\ view.status = "ok"
    /\ LET valid == ~(IsBlank(title) \/ IsBlank(content))
           s == IF valid
                THEN add_announcement(store, Strip(title), Strip(content), now)
                ELSE store
       IN /\ valid => TotalRows(store) < MaxRows
          /\ store' = s
          /\ view' = AnnouncementsView(s, IF valid THEN "success" ELSE "warning")
    /\ clock' = now

submit_announcement ==
    \E title \in Text, content \in Text, now \in Now :
        SubmitAnnouncement(title, content, now)

page_events ==
    \E now \in Now :
        /\ store' = Startup(store)
        /\ clock' = now
        /\ view' = EventsView(store', "none", now)

SubmitEvent(name, description, date, time, location, now) ==
    /\ view.page = "Events" /\ view.status = "ok"
    /\ LET valid == ~IsBlank(name)
           s == IF valid
                THEN add_event(store, Strip(name), Strip(description), date,
                               Strftime(time), Strip(location), now)
                ELSE store
       IN /\ valid => TotalRows(store) < MaxRows
          /\ store' = s
          /\ view' = EventsView(s, IF valid THEN "success" ELSE "warning", now)
    /\ clock' = now

submit_event ==
    \E name \in Text, description \in Notes, date \in Dates, time \in TimesOfDay,
       location \in Notes, now \in Now :
        SubmitEvent(name, description, date, time, location, now)

page_members ==
    /\ store' = Startup(store)
    /\ view' = MembersView(store', "none")
    /\ UNCHANGED clock

SubmitMember(name, role, joined_date) ==
    /\ view.page = "Members" /\ view.status = "ok"
    /\ LET valid == ~IsBlank(name)
           s == IF valid
                THEN add_member(store, Strip(name), Strip(role), joined_date)
                ELSE store
       IN /\ valid => TotalRows(store) < MaxRows
          /\ store' = s
          /\ view' = MembersView(s, IF valid THEN "success" ELSE "warning")
    /\ UNCHANGED clock

submit_member ==
    \E name \in Text, role \in Roles, joined_date \in Dates :
        SubmitMember(name, role, joined_date)

page_analytics ==
    /\ store' = Startup(store)
    /\ view' = AnalyticsView(store')
    /\ UNCHANGED clock

Next ==
    \/ page_home
    \/ page_announcements
    \/ submit_announcement
    \/ page_events
    \/ submit_event
    \/ page_members
    \/ submit_member
    \/ page_analytics

Spec == Init /\ [][Next]_vars

(* init_db invoked directly, at any point and on any store the program     *)
(* can have produced.                                                      *)

init_db_call ==
    /\ store' = init_db(store)
    /\ UNCHANGED <<clock, view>>

NextInitDb ==
    \/ Next
    \/ init_db_call

SpecInitDb == Init /\ [][NextInitDb]_vars

----------------------------------------------------------------------------
(* Properties *)

Ids(rows) == {rows[i].id : i \in 1..Len(rows)}

TextLeq(a, b) == ~TextLess(b, a)

Count(agg, r) == IF r \in DOMAIN agg THEN agg[r] ELSE 0

Grew(t) ==
    /\ Len(Rows(store', t)) = Len(Rows(store, t)) + 1
    /\ \A u \in TableNames \ {t} : Rows(store', u) = Rows(store, u)

ValidAnnouncement ==
    /\ view.page = "Announcements"
    /\ \E title \in Text, content \in Text :
          /\ Strip(title) # <<>>
          /\ Strip(content) # <<>>
          /\ SubmitAnnouncement(title, content, clock')

BlankAnnouncement ==
    /\ view.page = "Announcements"
    /\ \E title \in Text, content \in Text :
          /\ Strip(title) = <<>> \/ Strip(content) = <<>>
          /\ SubmitAnnouncement(title, content, clock')

ValidEvent ==
    /\ view.page = "Events"
    /\ \E name \in Text :
          /\ Strip(name) # <<>>
          /\ \E description \in Notes, date \in Dates, time \in TimesOfDay,
                location \in Notes :
                SubmitEvent(name, description, date, time, location, clock')

BlankEvent ==
    /\ view.page = "Events"
    /\ \E name \in Text :
          /\ Strip(name) = <<>>
          /\ \E description \in Notes, date \in Dates, time \in TimesOfDay,
                location \in Notes :
                SubmitEvent(name, description, date, time, location, clock')

ValidMember ==
    /\ view.page = "Members"
    /\ \E name \in Text :
          /\ Strip(name) # <<>>
          /\ \E role \in Roles, joined_date \in Dates :
                SubmitMember(name, role, joined_date)

BlankMember ==
    /\ view.page = "Members"
    /\ \E name \in Text :
          /\ Strip(name) = <<>>
          /\ \E role \in Roles, joined_date \in Dates :
                SubmitMember(name, role, joined_date)

\* C1: a submission of the announcement form whose title and content are
\* non-empty after stripping adds exactly one row to announcements, and the
\* new row's date_created is not earlier than the clock read just before.
C1_AnnouncementPosted ==
    [][ValidAnnouncement
       => LET old == Rows(store, "announcements")
              new == Rows(store', "announcements")
          IN /\ Len(new) = Len(old) + 1
             /\ \A i \in 1..Len(new) :
                   new[i].id \notin Ids(old)
                   => TextLeq(DatetimeIsoformat(clock), new[i].date_created)]_vars

C1_Witness ==
    /\ view.page = "Announcements"
    /\ view.message = "success"
    /\ clock > 0
    /\ \E i \in 1..Len(view.ann) : view.ann[i].date_created = DatetimeIsoformat(clock)

\* C2: a submission of any of the three forms whose required field is empty
\* or whitespace-only writes nothing (all three tables stay as they were)
\* and shows the warning, not the success message.
C2_BlankRequiredField ==
    [][(BlankAnnouncement \/ BlankEvent \/ BlankMember)
       => store' = store /\ view'.message = "warning"]_vars

C2_Witness ==
    /\ view.message = "warning"
    /\ view.page = "Announcements"
    /\ view.ann # <<>>

\* C3: on a render of the Events page every event dated before today is in
\* "past" and not in "upcoming", every event dated today or later is in
\* "upcoming" and not in "past", the partitions are disjoint and their union
\* is the set of all rows of the events table.
C3_EventsPartition ==
    (view.page = "Events" /\ view.status = "ok")
    => LET all == store.tables["events"]
           up == Ids(view.upcoming)
           pa == Ids(view.past)
       IN /\ \A i \in 1..Len(all) :
                 /\ ToDatetime(all[i].date) < view.today
                    => all[i].id \in pa /\ all[i].id \notin up
                 /\ ToDatetime(all[i].date) >= view.today
                    => all[i].id \in up /\ all[i].id \notin pa
          /\ up \cap pa = {}
          /\ up \cup pa = Ids(all)
          /\ Len(view.upcoming) + Len(view.past) = Len(all)

C3_Witness ==
    /\ view.page = "Events"
    /\ view.past # <<>>
    /\ \E i \in 1..Len(view.upcoming) : view.upcoming[i].date = view.today

\* C4: the store is append-only: every step keeps every existing row with its
\* id and field values, ids are unique within each table, and a successful
\* submission adds one row to its own table and none to the other two.
C4_AppendOnly ==
    [][/\ \A t \in TableNames : \A i \in 1..Len(Rows(store, t)) :
             \E j \in 1..Len(Rows(store', t)) : Rows(store', t)[j] = Rows(store, t)[i]
       /\ \A t \in TableNames : \A i, j \in 1..Len(Rows(store', t)) :
             i # j => Rows(store', t)[i].id # Rows(store', t)[j].id
       /\ ValidAnnouncement => Grew("announcements")
       /\ ValidEvent => Grew("events")
       /\ ValidMember => Grew("members")]_vars

C4_Witness ==
    /\ view.page = "Members"
    /\ view.message = "success"
    /\ Len(Rows(store, "members")) = 2

\* C5: once main() has passed its startup check and dispatched to a page
\* handler that reads the store, the three tables all exist.
C5_TablesExistBeforeUse ==
    view.page \in {"Announcements", "Events", "Members", "Analytics"}
    => \A t \in TableNames : Exists(store, t)

MemberAdded(n, r) ==
    LET old == value_counts(fetch_members(store))
        new == value_counts(fetch_members(store'))
    IN /\ \E i \in 1..Len(view'.mem) : view'.mem[i].name = n /\ view'.mem[i].role = r
       /\ Count(new, r) = Count(old, r) + 1
       /\ \A q \in (DOMAIN old \cup DOMAIN new) \ {r} : Count(new, q) = Count(old, q)

\* C6 as stated: a submission of the member form with a non-empty name n and
\* a role r lists a row with name n and role r on the next render and raises
\* the role count of r by one, the other role counts staying as they were.
C6_MemberAddedAsTyped ==
    [][view.page = "Members"
       => \A name \in Text \ {<<>>} : \A role \in Roles, joined_date \in Dates :
             SubmitMember(name, role, joined_date) => MemberAdded(name, role)]_vars

\* C6 as amended: a submission of the member form whose name is non-empty
\* after stripping lists a row with the stripped name and the stripped role
\* on the next render and raises the role count of the stripped role by one,
\* the other role counts staying as they were.
C6_MemberAdded ==
    [][view.page = "Members"
       => \A name \in {n \in Text : Strip(n) # <<>>} :
             \A role \in Roles, joined_date \in Dates :
                SubmitMember(name, role, joined_date)
                => MemberAdded(Strip(name), Strip(role))]_vars

C6_Witness ==
    /\ view.page = "Members"
    /\ view.message = "success"
    /\ Len(view.mem) = 2
    /\ view.mem[1].role # view.mem[2].role

EventsAscending ==
    \A i, j \in 1..Len(view.ev) : i < j => view.ev[i].date <= view.ev[j].date

MembersDescending ==
    \A i, j \in 1..Len(view.mem) : i < j => view.mem[i].joined_date >= view.mem[j].joined_date

Complete ==
    /\ view.page = "Announcements" => Ids(view.ann) = Ids(store.tables["announcements"])
    /\ view.page = "Events" => Ids(view.ev) = Ids(store.tables["events"])
    /\ view.page = "Members" => Ids(view.mem) = Ids(store.tables["members"])

\* C7 as stated: every read lists all rows, announcements with each row
\* inserted later before every row inserted earlier, events by date
\* ascending, members by joined date descending.
C7_InsertionOrder ==
    view.status = "ok"
    => /\ Complete
       /\ \A i, j \in 1..Len(view.ann) : i < j => view.ann[i].id > view.ann[j].id
       /\ EventsAscending
       /\ MembersDescending

\* C7 as amended: every read lists all rows, announcements by date_created
\* descending (a row with a later timestamp before every row with an earlier
\* one), events by date ascending, members by joined date descending.
C7_ReadOrder ==
    view.status = "ok"
    => /\ Complete
       /\ \A i, j \in 1..Len(view.ann) :
             i < j => TextLeq(view.ann[j].date_created, view.ann[i].date_created)
       /\ EventsAscending
       /\ MembersDescending

C7_Witness ==
    /\ view.page = "Announcements"
    /\ Len(view.ann) = 2
    /\ view.ann[1].id = 2
    /\ view.ann[1].date_created # view.ann[2].date_created

ReadOnlyRun ==
    \/ BlankAnnouncement
    \/ BlankEvent
    \/ BlankMember
    \/ page_home
    \/ page_announcements
    \/ page_events
    \/ page_members
    \/ page_analytics

\* C9: a run without a successful submission leaves the rows of all three
\* tables as they were, and when it draws the page that was on the screen it
\* reads the same rows in the same order as the run before.  (Written as
\* "unchanged, or not such a run": the cheap disjunct is evaluated first.)
C9_ReadsChangeNothing ==
    [][\/ /\ \A t \in TableNames : Rows(store', t) = Rows(store, t)
          /\ (view'.page = view.page /\ view.status = "ok")
             => /\ view'.status = "ok"
                /\ view'.ann = view.ann
                /\ view'.ev = view.ev
                /\ view'.mem = view.mem
                /\ view'.charts = view.charts
                /\ view'.roles = view.roles
       \/ ~ReadOnlyRun]_vars

C9_Witness ==
    /\ view.page = "Members"
    /\ view.message = "none"
    /\ Len(view.mem) = 2

\* C10: init_db creates each of the three tables only if it is absent, keeps
\* every existing table with its rows, and a further invocation changes
\* nothing.
C10_InitDbIdempotent ==
    [][store' = init_db(store)
       => /\ \A t \in DOMAIN store.tables : store'.tables[t] = store.tables[t]
          /\ DOMAIN store'.tables = TableNames
          /\ \A t \in TableNames \ DOMAIN store.tables : store'.tables[t] = <<>>
          /\ init_db(store') = store']_vars

C10_Witness ==
    /\ view.page = "Announcements"
    /\ view.status = "error"
    /\ Exists(store, "announcements")
    /\ Rows(store, "members") # <<>>

====
